---- MODULE Spec2Model ----
(***************************************************************************)
(* Model of src/python/ghReleaseDownloader.py: the class                   *)
(* ghReleaseDownloader with its constructor, listReleases and              *)
(* downloadRelease.  The HTTP server, the network and the archive body are *)
(* the environment: every outcome they can produce is an input of the      *)
(* action that consumes it.                                                *)
(*                                                                         *)
(* Python values: None is the empty tuple, any other value v is <<v>>.     *)
(* A JSON object is a function from the keys it has to their values.       *)
(***************************************************************************)
EXTENDS Integers, Sequences, FiniteSets, TLC

VARIABLES
    releases,             \* self.releases
    gh_owner,             \* self.gh_owner
    gh_repo,              \* self.gh_repo
    gh_endpoint_release,  \* self.gh_endpoint_release
    gh_default_header,    \* self.gh_default_header (a dict: name -> value)
    fs,                   \* the file system: set of <<directory, entry>>
    call,                 \* the last method called, with its arguments
    sent,                 \* the requests.get calls made during the last call
    received,             \* what the network answered to them
    stdout,               \* what the last call printed
    raised,               \* the exception the last call ended with, or NoError
    listRequests          \* number of listing requests issued so far

vars == <<releases, gh_owner, gh_repo, gh_endpoint_release, gh_default_header,
          fs, call, sent, received, stdout, raised, listRequests>>

----------------------------------------------------------------------------
(* Bounds *)

MaxReleases == 2      \* longest listing response
MaxRequests == 2      \* listing requests issued per client

----------------------------------------------------------------------------
(* Python values *)

None == <<>>
Some(v) == <<v>>

NoError == "none"
\* The error kind the code wraps HTTP failures in: raise SystemError(e).
TransportError == "SystemError"

gh_host == "https://api.github.com"

Fields == {"id", "name", "tag_name", "created_at", "published_at",
           "tarball_url", "zipball_url"}

\* dict.get(key, None)
Get(d, k) == IF k \in DOMAIN d THEN Some(d[k]) ELSE None

\* d[key] = value on a dict (in place: every alias of d sees it)
SetItem(d, k, v) == [n \in (DOMAIN d) \cup {k} |-> IF n = k THEN v ELSE d[n]]

\* str(n) for the integers the callers pass
Str(n) == CASE n = 1 -> "1" [] n = 2 -> "2" [] n = 5 -> "5" [] n = 30 -> "30"
            [] OTHER -> "0"

\* os.path.abspath(outDir), with the working directory /cwd
abspath(outDir) == CASE outDir = "." -> "/cwd"
                     [] outDir = "downloads/" -> "/cwd/downloads"
                     [] OTHER -> outDir

\* __format__date: a timestamp <<Y, m, d, H, M, S>> to the date <<Y, m, d>>
format_date(date) ==
    IF date = None THEN None ELSE Some(SubSeq(date[1], 1, 3))

\* __build__release__url__: '{}/repos/{}/{}/releases'.format(host, owner, repo)
build_release_url(owner, repo) == <<gh_host, "repos", owner, repo, "releases">>

----------------------------------------------------------------------------
(* Inputs *)

Owners == {"davidruvolo51"}
Repos == {"rand-api"}
OutDirs == {"downloads/"}
TagNames == {"latest", "v1", "v2", "v9"}
\* (per_page, page) as passed by the caller; 0 stands for a falsy argument
ListArgs == {<<30, 1>>, <<0, 0>>}
ErrorStatuses == {404, 500}
Statuses == {200} \cup ErrorStatuses
Bodies == {"targz", "other"}
Entries == {"a.txt", "sub/b.txt"}

\* v1 is the older release, v2 the newer one: the API may list them in any order
Stamp(t) == IF t = "v1" THEN <<2021, 9, 10, 14, 23, 0>>
                        ELSE <<2021, 10, 2, 8, 0, 30>>

FullObject(t) ==
    [id |-> IF t = "v1" THEN 1 ELSE 2,
     name |-> t,
     tag_name |-> t,
     created_at |-> Stamp(t),
     published_at |-> Stamp(t),
     tarball_url |-> <<gh_host, "tarball", t>>,
     zipball_url |-> <<gh_host, "zipball", t>>]

Drop(d, m) == [k \in (DOMAIN d) \ m |-> d[k]]

\* the keys a release object of the response may lack: none, or any one
MissingSets == {{}} \cup {{k} : k \in Fields}

\* every variant of the older release, and the newer release in full
Objects == {Drop(FullObject("v1"), m) : m \in MissingSets}
           \cup {FullObject("v2")}

SeqsUpTo(S, n) == UNION {[1..k -> S] : k \in 0..n}

Responses == SeqsUpTo(Objects, MaxReleases)

\* what the network can answer to the listing request
ListingOutcomes ==
    {[kind |-> "connection_error"]}
    \cup {[kind |-> "response", status |-> s, data |-> <<>>] : s \in ErrorStatuses}
    \cup {[kind |-> "response", status |-> 200, data |-> d] : d \in Responses}

\* what the network can answer to the download request
DownloadOutcomes ==
    {[kind |-> "connection_error"]}
    \cup {[kind |-> "response", status |-> s, body |-> b] :
            s \in Statuses, b \in Bodies}

----------------------------------------------------------------------------
(* self.releases: the list [] of the constructor, or a datatable Frame *)

EmptyList == [kind |-> "list", names |-> {}, rows |-> <<>>]

\* dt.Frame(list of dicts): one row per dict, the columns are the dicts' keys
Frame(rows) ==
    [kind |-> "Frame",
     names |-> UNION {DOMAIN rows[i] : i \in DOMAIN rows},
     rows |-> rows]

\* Truthy, were a stored Frame never taken for a built dataset
Truthy_refetch(r) == r.kind = "list" /\ Len(r.rows) > 0

\* bool(self.releases): len() of a list is its length, of a Frame its ncols
Truthy(r) == IF r.kind = "list" THEN Len(r.rows) > 0
                                ELSE Cardinality(r.names) > 0

\* lines 105-113: the dict built for one element of the response
Record(d) ==
    [id |-> Get(d, "id"),
     name |-> Get(d, "name"),
     tag_name |-> Get(d, "tag_name"),
     created_at |-> format_date(Get(d, "created_at")),
     published_at |-> format_date(Get(d, "published_at")),
     tarball_url |-> Get(d, "tarball_url"),
     zipball_url |-> Get(d, "zipball_url")]

Records(data) == [i \in DOMAIN data |-> Record(data[i])]

\* __print__releases: self.releases[:, ['id', 'name', 'tag_name', 'published_at']]
print_releases(r) ==
    IF {"id", "name", "tag_name", "published_at"} \subseteq r.names
    THEN NoError ELSE "KeyError"

----------------------------------------------------------------------------
(* The constructor *)

Init ==
    /\ gh_owner \in Owners
    /\ gh_repo \in Repos
    /\ releases = EmptyList
    /\ gh_endpoint_release = build_release_url(gh_owner, gh_repo)
    /\ gh_default_header = [n \in {"Accept"} |-> "application/vnd.github.v3+json"]
    /\ fs = {}
    /\ call = [op |-> "__init__"]
    /\ sent = <<>>
    /\ received = <<>>
    /\ stdout = <<>>
    /\ raised = NoError
    /\ listRequests = 0

----------------------------------------------------------------------------
(* listReleases(per_page, page); net is the network's answer to the request, *)
(* drawn where the request is made                                         *)

\* lines 92-94: headers is the same dict object as self.gh_default_header
ListHeaders(h, per_page, page) ==
    LET h1 == IF per_page # 0 THEN SetItem(h, "per_page", Str(per_page)) ELSE h
    IN IF page # 0 THEN SetItem(h1, "page", Str(page)) ELSE h1

\* line 97: requests.get(url = self.gh_endpoint_release, headers = headers)
ListRequest(url, headers) ==
    [method |-> "GET", url |-> url, headers |-> headers, params |-> <<>>,
     stream |-> FALSE]

\* IsSuccess, were only the 5xx statuses taken for failures
IsSuccess_no4xx(status) == status < 500

\* line 98: resp.raise_for_status()
IsSuccess(status) == status < 400

\* line 114: len([d['id'] for d in data])
AllHaveId(data) == \A i \in DOMAIN data : "id" \in DOMAIN data[i]

\* line 114, line 60
FoundLine(data) == <<"Found", Len(data)>>
TableLine(r) == <<"table", Len(r.rows)>>

listReleases(per_page, page) ==
    /\ call' = [op |-> "listReleases", per_page |-> per_page, page |-> page]
    /\ UNCHANGED <<gh_owner, gh_repo, gh_endpoint_release, fs>>
    /\ IF ~Truthy(releases)
       THEN LET headers == ListHeaders(gh_default_header, per_page, page) IN
            /\ listRequests < MaxRequests
            /\ gh_default_header' = headers
            /\ sent' = <<ListRequest(gh_endpoint_release, headers)>>
            /\ listRequests' = listRequests + 1
            /\ \E net \in ListingOutcomes :
               /\ received' = <<net>>
               /\ IF net.kind = "connection_error"
                  THEN \* line 97 raises, line 99 does not catch it
                       /\ raised' = "ConnectionError"
                       /\ stdout' = <<>>
                       /\ UNCHANGED releases
                  ELSE IF ~IsSuccess(net.status)
                  THEN \* lines 98-100
                       /\ raised' = TransportError
                       /\ stdout' = <<>>
                       /\ UNCHANGED releases
                  ELSE IF ~AllHaveId(net.data)
                  THEN \* line 114 raises before line 115 stores
                       /\ raised' = "KeyError"
                       /\ stdout' = <<>>
                       /\ UNCHANGED releases
                  ELSE \* lines 114, 115, 118
                       /\ releases' = Frame(Records(net.data))
                       /\ raised' = print_releases(releases')
                       /\ stdout' = <<FoundLine(net.data)>> \o
                             (IF raised' = NoError THEN <<TableLine(releases')>>
                                                   ELSE <<>>)
       ELSE /\ sent' = <<>>
            /\ received' = <<>>
            /\ raised' = print_releases(releases)
            /\ stdout' = IF raised' = NoError THEN <<TableLine(releases)>> ELSE <<>>
            /\ UNCHANGED <<releases, gh_default_header, listRequests>>

----------------------------------------------------------------------------
(* downloadRelease(outDir, tagName); net is the network's answer to the     *)
(* request, drawn where the request is made                                *)

\* line 139: requests.get(url, headers = self.gh_default_header, stream = True)
DownloadRequest(url, headers) ==
    [method |-> "GET", url |-> url, headers |-> headers, params |-> <<>>,
     stream |-> TRUE]

\* ResolveTag, were "latest" the last record (the newest when the API lists
\* oldest-first) instead of the first
ResolveTag_last(r, tagName) ==
    IF tagName # "latest" THEN [ok |-> TRUE, tag |-> Some(tagName)]
    ELSE IF r.kind = "list" THEN [ok |-> FALSE, errors |-> {"TypeError"}]
    ELSE IF "tag_name" \notin r.names \/ Len(r.rows) = 0
    THEN [ok |-> FALSE, errors |-> {"KeyError", "IndexError"}]
    ELSE [ok |-> TRUE, tag |-> r.rows[Len(r.rows)].tag_name]

\* lines 132-134: the tag looked up, or the exception of self.releases[0, ['tag_name']]
ResolveTag(r, tagName) ==
    IF tagName # "latest" THEN [ok |-> TRUE, tag |-> Some(tagName)]
    ELSE IF r.kind = "list" THEN [ok |-> FALSE, errors |-> {"TypeError"}]
    ELSE IF "tag_name" \notin r.names \/ Len(r.rows) = 0
    THEN [ok |-> FALSE, errors |-> {"KeyError", "IndexError"}]
    ELSE [ok |-> TRUE, tag |-> r.rows[1].tag_name]

\* self.releases[f.tag_name == release, :]: the row numbers selected
Matches(r, release) == {i \in DOMAIN r.rows : r.rows[i].tag_name = release}

Min(S) == CHOOSE i \in S : \A j \in S : i <= j

\* LookupUrl, were a lookup miss answered with the first record
LookupUrl_fallback(r, release) ==
    IF r.kind = "list" THEN [ok |-> FALSE, errors |-> {"TypeError"}]
    ELSE IF "tag_name" \notin r.names THEN [ok |-> FALSE, errors |-> {"KeyError"}]
    ELSE IF Matches(r, release) = {} THEN [ok |-> TRUE, url |-> r.rows[1].tarball_url]
    ELSE [ok |-> TRUE, url |-> r.rows[Min(Matches(r, release))].tarball_url]

\* line 136: the url of the first selected row, or the exception
LookupUrl(r, release) ==
    IF r.kind = "list" THEN [ok |-> FALSE, errors |-> {"TypeError"}]
    ELSE IF "tag_name" \notin r.names THEN [ok |-> FALSE, errors |-> {"KeyError"}]
    ELSE IF Matches(r, release) = {} THEN [ok |-> FALSE, errors |-> {"IndexError"}]
    ELSE [ok |-> TRUE, url |-> r.rows[Min(Matches(r, release))].tarball_url]

\* lines 138, 143
DownloadingLine(release, url) == <<"Downloading", release, url>>
ExtractedLine(dir) == <<"Extracted", dir>>

downloadRelease(outDir, tagName) ==
    LET dir == abspath(outDir)
        res == ResolveTag(releases, tagName)
        look == LookupUrl(releases, res.tag)
    IN
    /\ call' = [op |-> "downloadRelease", outDir |-> outDir, tagName |-> tagName]
    /\ UNCHANGED <<releases, gh_owner, gh_repo, gh_endpoint_release,
                   gh_default_header, listRequests>>
    /\ IF ~res.ok
       THEN /\ raised' \in res.errors
            /\ sent' = <<>> /\ received' = <<>> /\ stdout' = <<>>
            /\ UNCHANGED fs
       ELSE IF ~look.ok
       THEN /\ raised' \in look.errors
            /\ sent' = <<>> /\ received' = <<>> /\ stdout' = <<>>
            /\ UNCHANGED fs
       ELSE IF look.url = None
       THEN \* requests.get(None, ...): no request leaves the client
            /\ raised' = "MissingSchema"
            /\ sent' = <<>> /\ received' = <<>>
            /\ stdout' = <<DownloadingLine(res.tag, look.url)>>
            /\ UNCHANGED fs
       ELSE /\ sent' = <<DownloadRequest(look.url[1], gh_default_header)>>
            /\ \E net \in DownloadOutcomes :
               /\ received' = <<net>>
               /\ IF net.kind = "connection_error"
                  THEN /\ raised' = "ConnectionError"
                       /\ stdout' = <<DownloadingLine(res.tag, look.url)>>
                       /\ UNCHANGED fs
                  ELSE IF net.body # "targz"
                  THEN \* line 140: tarfile.open on a body that is no gzip stream
                       /\ raised' = "ReadError"
                       /\ stdout' = <<DownloadingLine(res.tag, look.url)>>
                       /\ UNCHANGED fs
                  ELSE \* line 141 extracts, line 142 looks at the status
                       /\ fs' = fs \cup {<<dir, e>> : e \in Entries}
                       /\ IF IsSuccess(net.status)
                          THEN /\ raised' = NoError
                               /\ stdout' = <<DownloadingLine(res.tag, look.url),
                                              ExtractedLine(dir)>>
                          ELSE /\ raised' = TransportError
                               /\ stdout' = <<DownloadingLine(res.tag, look.url)>>

----------------------------------------------------------------------------

Next ==
    \/ \E a \in ListArgs : listReleases(a[1], a[2])
    \/ \E o \in OutDirs, t \in TagNames : downloadRelease(o, t)

Spec == Init /\ [][Next]_vars

----------------------------------------------------------------------------
(* Properties *)

\* the snapshot holds at least one record
NonEmpty(r) == r.kind = "Frame" /\ Len(r.rows) > 0

\* the snapshot holds no record
Empty(r) == Len(r.rows) = 0

\* the last call's request was answered with a non-2xx status
HttpErrorReceived(rcv) ==
    /\ rcv # <<>>
    /\ rcv[1].kind = "response"
    /\ rcv[1].status \notin 200..299

\* the last call's request got no answer at all
NetworkFailure(rcv) == rcv # <<>> /\ rcv[1].kind = "connection_error"

\* the last call's request was answered with a 2xx status
SuccessReceived(rcv) ==
    /\ rcv # <<>>
    /\ rcv[1].kind = "response"
    /\ rcv[1].status \in 200..299

IsListingRequest(q) ==
    q.url = <<"https://api.github.com", "repos", gh_owner, gh_repo, "releases">>

\* C1 (as amended): once the snapshot is non-empty, no call changes it and no
\* call issues a listing request; the request that filled it is the last one.
C1_NoRefetchOnceNonEmpty ==
    [][NonEmpty(releases) =>
         /\ releases' = releases
         /\ listRequests' = listRequests
         /\ \A i \in DOMAIN sent' : ~IsListingRequest(sent'[i])]_vars

\* C1 witness: a listReleases call served from a non-empty snapshot.
C1_Witness ==
    /\ NonEmpty(releases)
    /\ call.op = "listReleases"
    /\ sent = <<>>
    /\ raised = NoError

\* C1 (original): a non-empty snapshot means exactly one listing request was
\* issued across the client's lifetime.
C1_ExactlyOneListingRequest == NonEmpty(releases) => listRequests = 1

C3_NetworkFailureIsTransportError ==
    (call.op = "listReleases" /\ NetworkFailure(received)) =>
        /\ raised = TransportError
        /\ Empty(releases)

\* C4: after a successful listing response with zero releases is stored, a
\* listReleases call issues no listing request.
C4_EmptySuccessSuppressesRefetch ==
    [][(/\ releases.kind = "Frame"
        /\ Empty(releases)
        /\ call'.op = "listReleases") =>
          /\ sent' = <<>>
          /\ listRequests' = listRequests]_vars

\* C5: on a non-empty snapshot, downloadRelease("latest") looks up the
\* tag_name of the first record and requests that record's tarball_url,
\* whatever the dates of the records; any other tagName is looked up as given.
C5_LatestIsFirstRecord ==
    (call.op = "downloadRelease" /\ NonEmpty(releases)) =>
        LET first == releases.rows[1] IN
        /\ call.tagName = "latest" =>
             /\ Len(stdout) >= 1
             /\ stdout[1] = <<"Downloading", first.tag_name, first.tarball_url>>
             /\ first.tarball_url = <<>> => sent = <<>>
             /\ first.tarball_url # <<>> =>
                  /\ Len(sent) = 1
                  /\ sent[1].url = first.tarball_url[1]
        /\ call.tagName # "latest" =>
             /\ stdout # <<>> => stdout[1][2] = <<call.tagName>>
             /\ sent # <<>> =>
                  \E i \in DOMAIN releases.rows :
                     /\ releases.rows[i].tag_name = <<call.tagName>>
                     /\ releases.rows[i].tarball_url = <<sent[1].url>>

\* C5 witness: "latest" downloaded from a snapshot whose first record was
\* published before its second.
C5_Witness ==
    /\ call.op = "downloadRelease"
    /\ call.tagName = "latest"
    /\ Len(releases.rows) = 2
    /\ releases.rows[1].published_at = <<<<2021, 9, 10>>>>
    /\ releases.rows[2].published_at = <<<<2021, 10, 2>>>>
    /\ Len(sent) = 1
    /\ raised = NoError

\* no record of the snapshot has the tag that tagName resolves to
NoMatch(r, tagName) ==
    \/ Empty(r)
    \/ /\ tagName # "latest"
       /\ \A i \in DOMAIN r.rows : r.rows[i].tag_name # <<tagName>>

\* C6: when no record has the resolved tag (the snapshot being empty
\* included), downloadRelease fails, issues no HTTP request, writes no file
\* and leaves the snapshot unchanged.
C6_LookupMissFails ==
    [][(call'.op = "downloadRelease" /\ NoMatch(releases, call'.tagName)) =>
          /\ raised' # NoError
          /\ sent' = <<>>
          /\ fs' = fs
          /\ releases' = releases
          /\ listRequests' = listRequests]_vars

\* C6 witness: a tag no record has, looked up in a non-empty snapshot.
C6_Witness ==
    /\ call.op = "downloadRelease"
    /\ NonEmpty(releases)
    /\ NoMatch(releases, call.tagName)
    /\ raised = "IndexError"
    /\ sent = <<>>

\* C7: a non-2xx answer to the download request ends downloadRelease with
\* TransportError.
C7_DownloadHttpErrorIsTransportError ==
    (call.op = "downloadRelease" /\ HttpErrorReceived(received)) =>
        raised = TransportError

\* C8: a successful listing response of N release objects, each with any
\* subset of the fields, makes listReleases succeed and store N records in
\* response order, with None for every missing field.
C8_SnapshotHasNRecords ==
    (call.op = "listReleases" /\ SuccessReceived(received)) =>
        LET data == received[1].data IN
        /\ raised = NoError
        /\ releases.kind = "Frame"
        /\ Len(releases.rows) = Len(data)
        /\ \A i \in DOMAIN data :
              /\ Get(data[i], "id") = releases.rows[i].id
              /\ Get(data[i], "tag_name") = releases.rows[i].tag_name
              /\ \A k \in Fields \ DOMAIN data[i] : releases.rows[i][k] = <<>>

\* C9: every listing request is a GET to {host}/repos/{owner}/{repo}/releases
\* with the Accept header and with the per_page and page given by the caller
\* as its request parameters.
C9_ListingRequestCarriesParameters ==
    (call.op = "listReleases" /\ sent # <<>>) =>
        /\ sent[1].method = "GET"
        /\ IsListingRequest(sent[1])
        /\ "Accept" \in DOMAIN sent[1].headers
        /\ sent[1].headers["Accept"] = "application/vnd.github.v3+json"
        /\ call.per_page # 0 =>
             /\ "per_page" \in DOMAIN sent[1].params
             /\ sent[1].params["per_page"] = Str(call.per_page)
        /\ call.page # 0 =>
             /\ "page" \in DOMAIN sent[1].params
             /\ sent[1].params["page"] = Str(call.page)

\* C10: the default header map always holds the Accept entry alone, and so
\* do the headers of every download request.
C10_DefaultHeaderUnchanged ==
    /\ DOMAIN gh_default_header = {"Accept"}
    /\ (call.op = "downloadRelease" /\ sent # <<>>) =>
          DOMAIN sent[1].headers = {"Accept"}

====
